---- MODULE Spec2Model ----
(***************************************************************************)
(* Model of the newsletter gamification API: DatabaseService.recordRead    *)
(* and DatabaseService.getUserStats over the users and reading_stats       *)
(* tables, with the wall clock that both the worker and SQLite read.       *)
(*                                                                         *)
(* Time.  The clock counts phases; every UTC calendar day d has two:       *)
(*   clock = 2*d      the instants 00:00 .. 02:59 UTC of day d             *)
(*   clock = 2*d + 1  the instants 03:00 .. 23:59 UTC of day d             *)
(* Subtracting three hours from an instant of phase 2*d lands in day d-1   *)
(* and from phase 2*d+1 in day d, so "-3 hours" is "one phase back" as far *)
(* as calendar dates are concerned.  Day numbers divisible by 7 are        *)
(* Sundays (getDay() = 0, strftime('%w') = '0').  The worker runs with     *)
(* UTC as its local time zone.                                             *)
(***************************************************************************)
EXTENDS Integers, Sequences, FiniteSets, TLC

VARIABLES clock, users, reading_stats, calls, observed, reply

vars == <<clock, users, reading_stats, calls, observed, reply>>

-----------------------------------------------------------------------------
(* Bounds *)

\* last day (counted from WeekStart) the sequential clock reaches
SeqDays == 8
\* last day (counted from WeekStart) the concurrent clock reaches
ConcDays == 7
\* rows of reading_stats a sequential run may hold
SeqReads == 2
\* last day (counted from WeekStart) the clock of the one-reader run reaches
WeekDays == 8
\* rows of reading_stats the one-reader run may hold
WeekReads == 6
\* rows of reading_stats a concurrent run may hold
ConcReads == 2
\* last day (counted from WeekStart) the clock of the daily reader reaches
LongDays == 109
\* last day (counted from WeekStart) the clock of the run with GET requests reaches
ApiDays == 8
\* rows of reading_stats the run with GET requests may hold
ApiReads == 2
\* last day (counted from WeekStart) the clock of the earlier services reaches
IncDays == 8
\* rows of reading_stats the run of the earlier services may hold
IncReads == 3
\* last day (counted from WeekStart) the clock of the run around midnight reaches
NightDays == 3
\* rows of reading_stats the run around midnight may hold
NightReads == 2
\* readers of the run that fills the list of top readers
TopUsers == 11
\* last day (counted from WeekStart) the clock of that run reaches
TopDays == 2
\* rows of reading_stats that run may hold
TopReads == 13

\* a Sunday, far enough from day 0 for the lookback window of getUserStats
WeekStart == 14 * 7

-----------------------------------------------------------------------------
(* Dates and time *)

\* now.setHours(now.getHours() - 3)  /  datetime('now', '-3 hours')
minus3hours(t) == t - 1

\* SQLite date(x), toISOString().split('T')[0]: the calendar day of an instant
date(t) == t \div 2

\* new Date('YYYY-MM-DD'): midnight UTC of the day, as an instant
newDate(d) == 2 * d

\* Date.prototype.getDay() with UTC as local zone; 0 is Sunday
getDay(t) == date(t) % 7

\* strftime('%w', d) = '0'
strftimeW(d) == d % 7

\* date(datetime('now', '-3 hours'))
TodayBRT == date(minus3hours(clock))

-----------------------------------------------------------------------------
(* Emails *)

Alpha == {"a", "b", "c", "o"}
Digit == {"1"}
LocalChars == Alpha \cup Digit \cup {".", "_", "%", "+", "-"}
DomainChars == Alpha \cup Digit \cup {".", "-"}

\* the pattern with a top-level domain of one letter or more
isValidEmail_shortTld(email) ==
    \E i \in 1..Len(email) : \E j \in 1..Len(email) :
        /\ email[i] = "@"
        /\ i > 1
        /\ \A k \in 1..(i - 1) : email[k] \in LocalChars
        /\ j > i + 1
        /\ email[j] = "."
        /\ \A k \in (i + 1)..(j - 1) : email[k] \in DomainChars
        /\ Len(email) - j >= 1
        /\ \A k \in (j + 1)..Len(email) : email[k] \in Alpha

\* /^[a-zA-Z0-9._%+-]+@[a-zA-Z0-9.-]+\.[a-zA-Z]{2,}$/ over the model alphabet
isValidEmail(email) ==
    \E i \in 1..Len(email) : \E j \in 1..Len(email) :
        /\ email[i] = "@"
        /\ i > 1
        /\ \A k \in 1..(i - 1) : email[k] \in LocalChars
        /\ j > i + 1
        /\ email[j] = "."
        /\ \A k \in (i + 1)..(j - 1) : email[k] \in DomainChars
        /\ Len(email) - j >= 2
        /\ \A k \in (j + 1)..Len(email) : email[k] \in Alpha

Alice == <<"a", "@", "b", ".", "c", "o">>
Bob == <<"b", "1", "@", "b", ".", "c", "o">>
NoTld == <<"a", "@", "b", ".", "c">>
NoAt == <<"a", ".", "c", "o">>

Emails == {Alice, Bob, NoTld}
ValidEmails == {e \in Emails \cup {NoAt} : isValidEmail(e)}

-----------------------------------------------------------------------------
(* Tables *)

NoUser == [id |-> 0]

\* the SELECT without its WHERE clause
userByEmail_anyRow(email) ==
    IF users # {}
    THEN CHOOSE u \in users : TRUE
    ELSE NoUser

\* SELECT * FROM users WHERE email = ?
userByEmail(email) ==
    IF \E u \in users : u.email = email
    THEN CHOOSE u \in users : u.email = email
    ELSE NoUser

\* the rows of reading_stats of one user
readsOf(id) == {i \in 1..Len(reading_stats) : reading_stats[i].user_id = id}

\* SELECT DISTINCT date(read_date) FROM reading_stats WHERE user_id = ?
readDays(id) == {date(reading_stats[i].read_date) : i \in readsOf(id)}

-----------------------------------------------------------------------------
(* Calls in flight *)

Procs == {1, 2}

Idle == [pc |-> "idle", email |-> <<>>, post_id |-> 0, user_id |-> 0,
         dates |-> <<>>, error |-> "none", message |-> "", started |-> 0]

Active == {p \in Procs : calls[p].pc \notin {"idle"}}

-----------------------------------------------------------------------------
(* recordRead: the streak replay *)

RECURSIVE sortDesc(_)
\* ORDER BY read_date DESC
sortDesc(S) ==
    IF S = {} THEN <<>>
    ELSE LET m == CHOOSE x \in S : \A y \in S : y <= x
         IN <<m>> \o sortDesc(S \ {m})

\* Math.floor((prevDate.getTime() - currentDate.getTime()) / (1000*60*60*24))
diffDays(prevDate, currentDate) == (prevDate - currentDate) \div 2

\* the test that takes any two-day difference as consecutive
isConsecutive_anyTwo(prevDate, currentDate) ==
    \/ diffDays(prevDate, currentDate) = 1
    \/ diffDays(prevDate, currentDate) = 2

\* diffDays === 1 || (diffDays === 2 && currentDate.getDay() === 0)
isConsecutive(prevDate, currentDate) ==
    \/ diffDays(prevDate, currentDate) = 1
    \/ diffDays(prevDate, currentDate) = 2 /\ getDay(currentDate) = 0

RECURSIVE streakLoop(_, _, _)
\* for (let i = 0; i < dates.length; i++) { ... } with i counted from 1
streakLoop(dates, i, streak) ==
    IF i > Len(dates) THEN streak
    ELSE IF i = 1 THEN streakLoop(dates, i + 1, 1)
    ELSE IF isConsecutive(newDate(dates[i - 1]), newDate(dates[i]))
         THEN streakLoop(dates, i + 1, streak + 1)
         ELSE streak

\* the loop counting the steps between dates instead of the dates
computeStreak_steps(dates) == streakLoop(dates, 1, 0) - 1

\* let streak = 0; the loop over the dates; the value bound to the UPDATE
computeStreak(dates) == streakLoop(dates, 1, 0)

-----------------------------------------------------------------------------
(* getUserStats: the streak query *)

LookbackDays == 90

\* WITH RECURSIVE dates(date): today, today - 1, ..., until a row is older
\* than today - 90 days
statsDates == (TodayBRT - (LookbackDays + 1))..TodayBRT

\* daily_reads: SELECT DISTINCT date(read_date) of the rows of the user
daily_reads(id) == readDays(id)

\* streak_calc.has_read
has_read(reads, d) == d \in reads

\* streak_calc.is_sunday
is_sunday(d) == strftimeW(d) = 0

\* the count that takes a day without a read as a gap even when it is today
gaps_before_today_orToday(reads, d) ==
    Cardinality({s \in (d + 1)..TodayBRT :
        s \in statsDates /\ ~has_read(reads, s) /\ ~is_sunday(s)})

\* consecutive_reads.gaps_before_today
gaps_before_today(reads, d) ==
    Cardinality({s \in (d + 1)..(TodayBRT - 1) :
        s \in statsDates /\ ~has_read(reads, s) /\ ~is_sunday(s)})

\* the rows of consecutive_reads
consecutive_reads(reads) ==
    {d \in statsDates :
        \/ has_read(reads, d)
        \/ /\ is_sunday(d)
           /\ \E s \in reads : s \in statsDates /\ s > d /\ s <= TodayBRT}

\* SELECT COUNT(*) as current_streak FROM consecutive_reads WHERE gaps_before_today = 0
streak_count(id) ==
    LET reads == daily_reads(id) IN
    Cardinality({d \in consecutive_reads(reads) : gaps_before_today(reads, d) = 0})

\* user_data: the dates from date(u.created_at) on, a day at a time while the
\* date is before today
possibleDates(u) ==
    IF date(u.created_at) < TodayBRT
    THEN date(u.created_at)..TodayBRT
    ELSE {date(u.created_at)}

\* user_data.total_possible_newsletters: the dates that are not Sundays
total_possible_newsletters(u) ==
    Cardinality({d \in possibleDates(u) : strftimeW(d) # 0})

\* ROUND((CAST(total_reads AS FLOAT) / total_possible_newsletters) * 100, 2),
\* in hundredths of a percent
roundedRate(total_reads, possible) ==
    (2 * 10000 * total_reads + possible) \div (2 * possible)

\* the rate without the MIN(..., 100)
opening_rate_unclamped(total_reads, possible) ==
    IF possible > 0 THEN roundedRate(total_reads, possible) ELSE 10000

\* CASE WHEN total_possible_newsletters > 0 THEN MIN(ROUND(...), 100) ELSE 100 END
opening_rate(total_reads, possible) ==
    IF possible > 0
    THEN IF roundedRate(total_reads, possible) < 10000
         THEN roundedRate(total_reads, possible) ELSE 10000
    ELSE 10000

\* the object returned when the query yields no row
NoStats == [current_streak |-> 0, highest_streak |-> 0, total_reads |-> 0,
            opening_rate |-> 0]

getUserStats(email) ==
    LET u == userByEmail(email) IN
    IF u = NoUser THEN NoStats
    ELSE LET current_streak == streak_count(u.id)
             total_reads == Cardinality(readsOf(u.id))
         IN
         [current_streak |-> current_streak,
          highest_streak |-> IF current_streak > u.highest_streak
                             THEN current_streak ELSE u.highest_streak,
          total_reads |-> total_reads,
          opening_rate |-> opening_rate(total_reads, total_possible_newsletters(u))]

-----------------------------------------------------------------------------
(* getAdminStats and getTopReaders: the queries over a date range *)

\* WHERE u.email != 'admin@example.com'
adminEmail == <<"a", "d", "m", "i", "n", "@", "e", "x", "a", "m", "p", "l", "e",
                ".", "c", "o", "m">>

\* a nullable column holds <<v>> or NULL
NULL == <<>>

\* WITH RECURSIVE dates(date): startDate, then a day at a time while the date
\* is before endDate
adminDates(startDate, endDate) ==
    IF startDate < endDate THEN startDate..endDate ELSE {startDate}

\* newsletter_days: the days of the range, Sundays excluded, with a read of
\* any user
newsletter_days(startDate, endDate) ==
    {date(reading_stats[i].read_date) : i \in
        {j \in 1..Len(reading_stats) :
            /\ date(reading_stats[j].read_date) >= startDate
            /\ date(reading_stats[j].read_date) <= endDate
            /\ strftimeW(date(reading_stats[j].read_date)) # 0}}

\* daily_reads: the read days of a user inside the range
rangeReads(id, startDate, endDate) ==
    {d \in readDays(id) : d >= startDate /\ d <= endDate}

\* streak_calc: the dates of the range up to today
streakDates(startDate, endDate) ==
    {d \in adminDates(startDate, endDate) : d <= TodayBRT}

\* consecutive_reads.gaps_before_today of the range queries
range_gaps_before_today(dates, reads, d) ==
    Cardinality({s \in dates :
        s > d /\ s < TodayBRT /\ s \notin reads /\ strftimeW(s) # 0})

\* the rows of consecutive_reads of the range queries for one user
range_consecutive_reads(dates, reads) ==
    {d \in dates :
        \/ d \in reads
        \/ /\ strftimeW(d) = 0
           /\ \E s \in dates : s > d /\ s \in reads /\ s <= TodayBRT}

\* COALESCE(sc.current_streak, 0): streak_count of the range queries
range_streak(id, startDate, endDate) ==
    LET dates == streakDates(startDate, endDate)
        reads == rangeReads(id, startDate, endDate)
    IN Cardinality({d \in range_consecutive_reads(dates, reads) :
                       range_gaps_before_today(dates, reads, d) = 0})

\* COUNT(DISTINCT CASE WHEN date(r.read_date) >= date(u.created_at) AND
\* nd.date IS NOT NULL THEN date(r.read_date) ELSE NULL END), over the read
\* days of the user inside the range
range_total_reads(u, reads, nd) ==
    Cardinality({d \in reads : d >= date(u.created_at) /\ d \in nd})

\* SELECT COUNT(*) FROM newsletter_days nd2 WHERE nd2.date >= date(u.created_at)
range_total_possible(u, nd) ==
    Cardinality({n \in nd : n >= date(u.created_at)})

\* CASE WHEN total_possible_newsletters > 0 THEN ROUND(...) ELSE 0 END
range_opening_rate(total_reads, possible) ==
    IF possible > 0 THEN roundedRate(total_reads, possible) ELSE 0

\* user_rates of getAdminStats: one row for each user who is not the admin
\* and has a row of reading_stats inside the range (JOIN reading_stats)
user_rates(startDate, endDate) ==
    LET nd == newsletter_days(startDate, endDate) IN
    {LET total_reads == range_total_reads(u, rangeReads(u.id, startDate, endDate), nd)
         possible == range_total_possible(u, nd)
     IN [id |-> u.id,
         current_streak |-> range_streak(u.id, startDate, endDate),
         total_reads |-> total_reads,
         total_possible_newsletters |-> possible,
         is_active |-> 1,
         opening_rate |-> range_opening_rate(total_reads, possible)]
        : u \in {v \in users : /\ v.email # adminEmail
                                /\ rangeReads(v.id, startDate, endDate) # {}}}

RECURSIVE sumOf(_, _)
\* SUM(column) over a set of rows; column is the name of a field
sumOf(rows, column) ==
    IF rows = {} THEN 0
    ELSE LET r == CHOOSE x \in rows : TRUE
         IN r[column] + sumOf(rows \ {r}, column)

\* ROUND(AVG(column), 2) in hundredths, of values given in units
roundedAvg(total, n) == (2 * total + n) \div (2 * n)

\* SELECT COUNT(*), ROUND(AVG(current_streak), 2), ROUND(AVG(opening_rate), 2),
\* SUM(is_active) FROM user_rates; the averages in hundredths
getAdminStats(startDate, endDate) ==
    LET rows == user_rates(startDate, endDate)
        n == Cardinality(rows)
    IN [total_users |-> n,
        avg_streak |-> IF n = 0 THEN NULL
                       ELSE <<roundedAvg(100 * sumOf(rows, "current_streak"), n)>>,
        avg_opening_rate |-> IF n = 0 THEN NULL
                             ELSE <<roundedAvg(sumOf(rows, "opening_rate"), n)>>,
        active_users |-> IF n = 0 THEN NULL ELSE <<sumOf(rows, "is_active")>>]

\* user_reads of getTopReaders with the rate of the final SELECT: one row for
\* each user who is not the admin (LEFT JOIN reading_stats)
user_reads(startDate, endDate) ==
    LET nd == newsletter_days(startDate, endDate) IN
    {LET total_reads == range_total_reads(u, rangeReads(u.id, startDate, endDate), nd)
         possible == range_total_possible(u, nd)
     IN [id |-> u.id,
         email |-> u.email,
         streak |-> range_streak(u.id, startDate, endDate),
         last_read |-> u.last_read_date,
         total_reads |-> total_reads,
         opening_rate |-> range_opening_rate(total_reads, possible)]
        : u \in {v \in users : v.email # adminEmail}}

\* the order that looks at the streak alone
placedBefore_streakOnly(a, b) ==
    \/ a.streak > b.streak
    \/ a.streak = b.streak /\ a.id <= b.id

\* ORDER BY opening_rate DESC, streak DESC: row a is placed before row b
\* (rows with equal keys in the order of GROUP BY u.id)
placedBefore(a, b) ==
    \/ a.opening_rate > b.opening_rate
    \/ a.opening_rate = b.opening_rate /\ a.streak > b.streak
    \/ a.opening_rate = b.opening_rate /\ a.streak = b.streak /\ a.id <= b.id

RECURSIVE orderBy(_)
orderBy(rows) ==
    IF rows = {} THEN <<>>
    ELSE LET first == CHOOSE a \in rows : \A b \in rows : placedBefore(a, b)
         IN <<first>> \o orderBy(rows \ {first})

\* LIMIT 10
TopLimit == 10

\* SELECT email, streak, last_read_date as last_read, opening_rate FROM
\* user_reads WHERE total_reads > 0 ORDER BY ... LIMIT 10
getTopReaders(startDate, endDate) ==
    LET sorted == orderBy({r \in user_reads(startDate, endDate) : r.total_reads > 0})
        kept == IF Len(sorted) < TopLimit THEN Len(sorted) ELSE TopLimit
    IN [i \in 1..kept |->
           [email |-> sorted[i].email, streak |-> sorted[i].streak,
            last_read |-> sorted[i].last_read,
            opening_rate |-> sorted[i].opening_rate]]

-----------------------------------------------------------------------------
(* getUserReadingHistory, getPostStats and getHistoricalStats *)

RECURSIVE orderByReadDate(_)
\* ORDER BY r.read_date DESC over rows of reading_stats given by their
\* positions (rows with equal read_date in the order of insertion)
orderByReadDate(rows) ==
    IF rows = {} THEN <<>>
    ELSE LET m == CHOOSE i \in rows : \A j \in rows :
                     \/ reading_stats[j].read_date < reading_stats[i].read_date
                     \/ reading_stats[j].read_date = reading_stats[i].read_date /\ j >= i
         IN <<[date |-> reading_stats[m].read_date, post_id |-> reading_stats[m].post_id]>>
            \o orderByReadDate(rows \ {m})

\* SELECT r.read_date as date, r.post_id FROM reading_stats r JOIN users u
\* ON r.user_id = u.id WHERE u.email = ? ORDER BY r.read_date DESC
getUserReadingHistory(email) ==
    orderByReadDate({i \in 1..Len(reading_stats) :
        \E u \in users : u.email = email /\ reading_stats[i].user_id = u.id})

\* SELECT COUNT(*) as total_reads, COUNT(DISTINCT user_id) as unique_readers
\* FROM reading_stats WHERE post_id = ?
getPostStats(postId) ==
    LET rows == {i \in 1..Len(reading_stats) : reading_stats[i].post_id = postId} IN
    [total_reads |-> Cardinality(rows),
     unique_readers |-> Cardinality({reading_stats[i].user_id : i \in rows})]

\* daily_users: the users joined to a date, those whose record was created on
\* or before it, the admin excluded
daily_users(d) == {u \in users : date(u.created_at) <= d /\ u.email # adminEmail}

\* daily_reads.unique_readers: COUNT(DISTINCT r.user_id) of the reads of the
\* date by a user who is not the admin
unique_readers(d) ==
    Cardinality({u \in users : u.email # adminEmail /\ d \in readDays(u.id)})

\* the rows of daily_stats, by date: ROUND(AVG(u.current_streak), 2) and the
\* share of readers among the users of the date, for the dates of the range
\* that are not Sundays; both in hundredths
getHistoricalStats(startDate, endDate) ==
    [d \in {x \in adminDates(startDate, endDate) : strftimeW(x) # 0} |->
        LET du == daily_users(d)
            total_users == Cardinality(du)
        IN [avg_streak |-> IF total_users = 0 THEN 0
                           ELSE roundedAvg(100 * sumOf(du, "current_streak"), total_users),
            opening_rate |-> IF total_users > 0
                             THEN roundedRate(unique_readers(d), total_users)
                             ELSE 0]]

-----------------------------------------------------------------------------
(* Actions *)

threw(p, error, message) ==
    calls' = [calls EXCEPT ![p].pc = "threw", ![p].error = error, ![p].message = message]

\* the Sunday test without the adjustment to UTC-3
isSundayNow_utc == getDay(clock) = 0

\* const now = new Date(); now.setHours(now.getHours() - 3); now.getDay() === 0
isSundayNow == getDay(minus3hours(clock)) = 0

\* recordRead, up to its first await: the two validations
RecordRead(p, email, post_id) ==
    /\ calls[p].pc = "idle"
    /\ IF ~isValidEmail(email)
       THEN calls' = [calls EXCEPT ![p] = [Idle EXCEPT !.pc = "threw", !.email = email,
                          !.started = clock, !.post_id = post_id,
                          !.error = "ValidationError",
                          !.message = "Invalid email address"]]
       ELSE IF isSundayNow
       THEN calls' = [calls EXCEPT ![p] = [Idle EXCEPT !.pc = "threw", !.email = email,
                          !.started = clock, !.post_id = post_id,
                          !.error = "ValidationError",
                          !.message = "Reading is not allowed on Sundays"]]
       ELSE calls' = [calls EXCEPT ![p] = [Idle EXCEPT !.pc = "getOrCreateUser",
                          !.email = email, !.post_id = post_id, !.started = clock]]
    /\ UNCHANGED <<clock, users, reading_stats, observed, reply>>

\* getOrCreateUser: SELECT * FROM users WHERE email = ?
SelectUser(p) ==
    /\ calls[p].pc = "getOrCreateUser"
    /\ LET user == userByEmail(calls[p].email) IN
       IF user = NoUser
       THEN calls' = [calls EXCEPT ![p].pc = "insertUser"]
       ELSE calls' = [calls EXCEPT ![p].pc = "hasReadPost", ![p].user_id = user.id]
    /\ UNCHANGED <<clock, users, reading_stats, observed, reply>>

\* getOrCreateUser: INSERT INTO users (...) VALUES (?, 1, 1, NULL) and the
\* SELECT that follows; email is UNIQUE, id is AUTOINCREMENT, created_at is
\* CURRENT_TIMESTAMP
InsertUser(p) ==
    /\ calls[p].pc = "insertUser"
    /\ IF userByEmail(calls[p].email) # NoUser
       THEN /\ threw(p, "Error", "UNIQUE constraint failed: users.email")
            /\ UNCHANGED users
       ELSE LET id == Cardinality(users) + 1 IN
            /\ users' = users \cup {[id |-> id, email |-> calls[p].email,
                                     current_streak |-> 1, highest_streak |-> 1,
                                     last_read_date |-> <<>>, created_at |-> clock]}
            /\ calls' = [calls EXCEPT ![p].pc = "hasReadPost", ![p].user_id = id]
    /\ UNCHANGED <<clock, reading_stats, observed, reply>>

\* the duplicate test restricted to the reads of the current day
hasReadPost_today(userId, postId) ==
    \E i \in 1..Len(reading_stats) :
        /\ reading_stats[i].user_id = userId /\ reading_stats[i].post_id = postId
        /\ date(reading_stats[i].read_date) = TodayBRT

\* the duplicate test that never finds a row
hasReadPost_never(userId, postId) == FALSE

\* SELECT 1 FROM reading_stats WHERE user_id = ? AND post_id = ? LIMIT 1
hasReadPost(userId, postId) ==
    \E i \in 1..Len(reading_stats) :
        reading_stats[i].user_id = userId /\ reading_stats[i].post_id = postId

\* const hasRead = await this.hasReadPost(...); if (hasRead) return;
HasReadPost(p) ==
    /\ calls[p].pc = "hasReadPost"
    /\ IF hasReadPost(calls[p].user_id, calls[p].post_id)
       THEN calls' = [calls EXCEPT ![p].pc = "done"]
       ELSE calls' = [calls EXCEPT ![p].pc = "insertRead"]
    /\ UNCHANGED <<clock, users, reading_stats, observed, reply>>

\* INSERT INTO reading_stats (...) VALUES (..., datetime('now', '-3 hours'))
InsertRead(p) ==
    /\ calls[p].pc = "insertRead"
    /\ reading_stats' = Append(reading_stats,
           [user_id |-> calls[p].user_id, post_id |-> calls[p].post_id,
            read_date |-> minus3hours(clock)])
    /\ calls' = [calls EXCEPT ![p].pc = "selectDates"]
    /\ UNCHANGED <<clock, users, observed, reply>>

\* SELECT DISTINCT date(read_date) ... WHERE user_id = ? ORDER BY read_date DESC
SelectReadDates(p) ==
    /\ calls[p].pc = "selectDates"
    /\ calls' = [calls EXCEPT ![p].pc = "updateStreak",
                              ![p].dates = sortDesc(readDays(calls[p].user_id))]
    /\ UNCHANGED <<clock, users, reading_stats, observed, reply>>

\* the UPDATE without the CASE on highest_streak
updateUsers_keepHighest(streak, id) ==
    {IF u.id = id
     THEN [u EXCEPT !.current_streak = streak,
                    !.last_read_date = <<minus3hours(clock)>>]
     ELSE u : u \in users}

\* UPDATE users SET current_streak = ?, highest_streak = CASE WHEN ? >
\* highest_streak THEN ? ELSE highest_streak END, last_read_date = ... WHERE id = ?
updateUsers(streak, id) ==
    {IF u.id = id
     THEN [u EXCEPT !.current_streak = streak,
                    !.highest_streak = IF streak > u.highest_streak
                                       THEN streak ELSE u.highest_streak,
                    !.last_read_date = <<minus3hours(clock)>>]
     ELSE u : u \in users}

\* the streak loop and the UPDATE that persists its result
UpdateStreak(p) ==
    /\ calls[p].pc = "updateStreak"
    /\ users' = updateUsers(computeStreak(calls[p].dates), calls[p].user_id)
    /\ calls' = [calls EXCEPT ![p].pc = "done"]
    /\ UNCHANGED <<clock, reading_stats, observed, reply>>

\* the request ends: after { success: true } the client fetches GET /api/stats
\* for the same email and keeps the answer; after an error it keeps nothing
Respond(p) ==
    /\ calls[p].pc \in {"done", "threw"}
    /\ observed' = IF calls[p].pc = "done"
                   THEN [observed EXCEPT ![calls[p].email] = getUserStats(calls[p].email)]
                   ELSE observed
    /\ calls' = [calls EXCEPT ![p] = Idle]
    /\ UNCHANGED <<clock, users, reading_stats, reply>>

\* the wall clock moves to the next phase; a phase lasts three hours or more
\* and a request seconds, so a request in flight sees at most one phase change
Tick(lastDay) ==
    /\ clock < 2 * (WeekStart + lastDay) + 1
    /\ \A p \in Active : calls[p].started = clock
    /\ clock' = clock + 1
    /\ UNCHANGED <<users, reading_stats, calls, observed, reply>>

\* the newsletters a reader opens: today's issue or yesterday's
Posts == {TodayBRT, TodayBRT - 1}

-----------------------------------------------------------------------------
(* The earlier services: recordRead with an incremental streak *)

\* the read days of a user in a reading_stats table
daysOf(table, id) ==
    {date(table[i].read_date) : i \in {j \in 1..Len(table) : table[j].user_id = id}}

\* UPDATE users SET current_streak = ?, highest_streak = CASE ... END WHERE id = ?
updateUserStreak(table, userId, newStreak) ==
    {IF u.id = userId
     THEN [u EXCEPT !.current_streak = newStreak,
                    !.highest_streak = IF newStreak > u.highest_streak
                                       THEN newStreak ELSE u.highest_streak]
     ELSE u : u \in table}

\* yesterday.setDate(today.getDate() - 1); if (yesterday.getDay() === 0)
\* yesterday.setDate(yesterday.getDate() - 2), in days
yesterday(today) ==
    IF (today - 1) % 7 = 0 THEN today - 3 ELSE today - 1

\* updateStreak of db.service.ts: 1, or the stored streak plus one when the
\* latest read_date of the user is yesterday
updateStreak(lastRead, today, current_streak) ==
    IF lastRead = yesterday(today) THEN current_streak + 1 ELSE 1

\* recordRead of db.service.ts: getOrCreateUser (a row with the defaults of
\* the schema), the INSERT with DATE('now'), then updateStreak, which reads
\* the latest read_date after the INSERT and returns early on a Sunday
recordRead_dbService(email, post_id) ==
    LET found == userByEmail(email)
        id == IF found = NoUser THEN Cardinality(users) + 1 ELSE found.id
        created == IF found = NoUser
                   THEN users \cup {[id |-> id, email |-> email, current_streak |-> 0,
                                     highest_streak |-> 0, last_read_date |-> <<>>,
                                     created_at |-> clock]}
                   ELSE users
        inserted == Append(reading_stats,
                       [user_id |-> id, post_id |-> post_id,
                        read_date |-> newDate(date(clock))])
        days == daysOf(inserted, id)
        lastRead == CHOOSE d \in days : \A e \in days : e <= d
        user == CHOOSE u \in created : u.id = id
    IN
    /\ reading_stats' = inserted
    /\ users' = IF days = {} THEN updateUserStreak(created, id, 1)
                ELSE IF getDay(clock) = 0 THEN created
                ELSE updateUserStreak(created, id,
                         updateStreak(lastRead, date(clock), user.current_streak))
    /\ UNCHANGED <<clock, calls, observed, reply>>

\* the streak of recordRead of part_004, from the two latest read days up to
\* today: the stored streak when the latest is today, the stored streak plus
\* one when the two are consecutive, else 1
newStreak(lastReads, todayStr, current_streak) ==
    IF Len(lastReads) = 0 THEN 1
    ELSE IF lastReads[1] = todayStr THEN current_streak
    ELSE IF Len(lastReads) > 1
            /\ \/ lastReads[1] - lastReads[2] = 1
               \/ /\ lastReads[1] - lastReads[2] = 2
                  /\ lastReads[2] % 7 = 5
                  /\ lastReads[1] % 7 = 1
         THEN current_streak + 1
    ELSE 1

\* recordRead of part_004: getOrCreateUser, hasReadPost, the INSERT with
\* DATE('now', 'localtime'), the two latest read days and the UPDATE
recordRead_part004(email, post_id) ==
    LET found == userByEmail(email)
        id == IF found = NoUser THEN Cardinality(users) + 1 ELSE found.id
        created == IF found = NoUser
                   THEN users \cup {[id |-> id, email |-> email, current_streak |-> 1,
                                     highest_streak |-> 1, last_read_date |-> <<>>,
                                     created_at |-> clock]}
                   ELSE users
        user == CHOOSE u \in created : u.id = id
        inserted == Append(reading_stats,
                       [user_id |-> id, post_id |-> post_id,
                        read_date |-> newDate(date(clock))])
        sorted == sortDesc({d \in daysOf(inserted, id) : d <= date(clock)})
        lastReads == SubSeq(sorted, 1, IF Len(sorted) < 2 THEN Len(sorted) ELSE 2)
    IN
    /\ IF hasReadPost(id, post_id)
       THEN UNCHANGED <<users, reading_stats>>
       ELSE /\ reading_stats' = inserted
            /\ users' = {IF u.id = id
                         THEN [u EXCEPT !.last_read_date = <<newDate(date(clock))>>]
                         ELSE u : u \in updateUserStreak(created, id,
                                      newStreak(lastReads, date(clock), user.current_streak))}
    /\ UNCHANGED <<clock, calls, observed, reply>>

-----------------------------------------------------------------------------
(* The GET routes of the worker *)

\* no response was sent yet
NoReply == [route |-> "none", status |-> 0, error |-> "none", message |-> "",
            body |-> <<>>]

\* catch (error): status 400 for a ValidationError and 500 for any other
\* error, with the message of the error
catchError(route, error, message) ==
    [route |-> route, status |-> IF error = "ValidationError" THEN 400 ELSE 500,
     error |-> error, message |-> message, body |-> <<>>]

\* new Response(JSON.stringify(responseData)) with the default status
respond(route, responseData) ==
    [route |-> route, status |-> 200, error |-> "none", message |-> "",
     body |-> responseData]

\* the handler that empties reading_stats after answering
StatsRoute_clearing(userId, email) ==
    /\ reply' = IF email = NULL
                THEN catchError("/api/stats", "ValidationError",
                                "Email is required to fetch user statistics")
                ELSE respond("/api/stats",
                             [stats |-> getUserStats(email[1]),
                              history |-> getUserReadingHistory(email[1])])
    /\ reading_stats' = <<>>
    /\ UNCHANGED <<clock, users, calls, observed>>

\* GET /api/stats: the handler reads the email parameter alone
StatsRoute(userId, email) ==
    /\ reply' = IF email = NULL
                THEN catchError("/api/stats", "ValidationError",
                                  "Email is required to fetch user statistics")
                ELSE respond("/api/stats",
                             [stats |-> getUserStats(email[1]),
                              history |-> getUserReadingHistory(email[1])])
    /\ UNCHANGED <<clock, users, reading_stats, calls, observed>>

\* GET /api/posts/stats
PostStatsRoute(postId) ==
    /\ reply' = IF postId = NULL
                THEN catchError("/api/posts/stats", "ValidationError",
                                  "Newsletter ID is required to fetch post statistics")
                ELSE respond("/api/posts/stats", getPostStats(postId[1]))
    /\ UNCHANGED <<clock, users, reading_stats, calls, observed>>

\* the three tests of the admin routes: the Authorization header, the token
\* and users.is_admin
authFailure(auth) ==
    IF auth = "none" THEN "Authentication token is required for admin access"
    ELSE IF auth = "invalid" THEN "Invalid or expired authentication token"
    ELSE "Admin privileges are required to access this resource"

\* the query of an admin route over a range
rangeQuery(route, startDate, endDate) ==
    IF route = "/api/stats/admin" THEN getAdminStats(startDate, endDate)
    ELSE IF route = "/api/stats/admin/top-readers" THEN getTopReaders(startDate, endDate)
    ELSE getHistoricalStats(startDate, endDate)

\* the same query with NULL bound for a date of the range: no date and no
\* read is inside the range
nullRangeQuery(route) ==
    IF route = "/api/stats/admin"
    THEN [total_users |-> 0, avg_streak |-> NULL, avg_opening_rate |-> NULL,
          active_users |-> NULL]
    ELSE <<>>

\* an admin route: startDate and endDate go from the query string to the
\* query as they are.  With a parameter missing, bind(undefined) either throws
\* in the database driver or binds NULL.
adminRoute(route, auth, startDate, endDate) ==
    /\ \/ /\ auth # "admin"
          /\ reply' = catchError(route, "ValidationError", authFailure(auth))
       \/ /\ auth = "admin"
          /\ startDate # NULL /\ endDate # NULL
          /\ reply' = respond(route, rangeQuery(route, startDate[1], endDate[1]))
       \/ /\ auth = "admin"
          /\ startDate = NULL \/ endDate = NULL
          /\ \/ reply' = catchError(route, "Error", "D1_TYPE_ERROR")
             \/ reply' = respond(route, nullRangeQuery(route))
    /\ UNCHANGED <<clock, users, reading_stats, calls, observed>>

\* GET /api/stats/admin
AdminStatsRoute(auth, startDate, endDate) ==
    adminRoute("/api/stats/admin", auth, startDate, endDate)

\* GET /api/stats/admin/top-readers
TopReadersRoute(auth, startDate, endDate) ==
    adminRoute("/api/stats/admin/top-readers", auth, startDate, endDate)

\* GET /api/stats/admin/historical
HistoricalRoute(auth, startDate, endDate) ==
    adminRoute("/api/stats/admin/historical", auth, startDate, endDate)

-----------------------------------------------------------------------------
(* Specifications *)

InitTables ==
    /\ users = {}
    /\ reading_stats = <<>>
    /\ calls = [p \in Procs |-> Idle]
    /\ observed = [e \in ValidEmails |-> NoStats]
    /\ reply = NoReply

Begin(p, emails, posts, maxReads) ==
    /\ Len(reading_stats) + Cardinality(Active) < maxReads
    /\ \E email \in emails : \E post_id \in posts : RecordRead(p, email, post_id)

Step(p) ==
    \/ SelectUser(p)
    \/ InsertUser(p)
    \/ HasReadPost(p)
    \/ InsertRead(p)
    \/ SelectReadDates(p)
    \/ UpdateStreak(p)
    \/ Respond(p)

\* concurrent requests for the issue of the day, from a Saturday on
Init ==
    /\ clock = 2 * (WeekStart + 6) + 1
    /\ InitTables

Next ==
    \/ Tick(ConcDays)
    \/ \E p \in Procs : Begin(p, Emails, {TodayBRT}, ConcReads)
    \/ \E p \in Procs : Step(p)

Spec == Init /\ [][Next]_vars

\* one request at a time, two readers, from a Saturday on
SeqInit ==
    /\ clock = 2 * (WeekStart + 6) + 1
    /\ InitTables

SeqNext ==
    \/ Tick(SeqDays)
    \/ Begin(1, Emails, Posts, SeqReads)
    \/ Step(1)

SeqSpec == SeqInit /\ [][SeqNext]_vars

\* one request at a time, one reader opening the issue of the day after
\* 03:00 UTC, from a Monday to the Monday after
WeekInit ==
    /\ clock = 2 * (WeekStart + 1) + 1
    /\ InitTables

WeekNext ==
    \/ Tick(WeekDays)
    \/ clock % 2 = 1 /\ Begin(1, {Alice}, {TodayBRT}, WeekReads)
    \/ Step(1)

WeekSpec == WeekInit /\ [][WeekNext]_vars

\* one request at a time, one reader who opens the issue of every day that
\* is not a Sunday, from a Monday on for more days than getUserStats looks back
LongInit ==
    /\ clock = 2 * (WeekStart + 1) + 1
    /\ InitTables

\* the clock moves between requests, and a day ends only when it is a Sunday
\* or its issue has been read
LongTick ==
    /\ Active = {}
    /\ clock % 2 = 0
       => (TodayBRT % 7 = 0 \/ TodayBRT \in readDays(userByEmail(Alice).id))
    /\ Tick(LongDays)

LongNext ==
    \/ LongTick
    \/ clock % 2 = 1 /\ Begin(1, {Alice}, {TodayBRT}, LongDays)
    \/ Step(1)

LongSpec == LongInit /\ [][LongNext]_vars

\* the email of the n-th reader of the run that fills the list of top readers
readerEmail(n) ==
    <<(<<"a", "b", "c", "o">>)[((n - 1) \div 4) + 1],
      (<<"a", "b", "c", "o">>)[((n - 1) % 4) + 1], "@", "b", ".", "c", "o">>

\* the readers open the issue of the day in a fixed order: reader n after
\* the readers before it have registered, before every later reader and once
\* a day
inTurn(n) ==
    /\ \A m \in 1..(n - 1) : userByEmail(readerEmail(m)) # NoUser
    /\ \A m \in n..TopUsers :
          userByEmail(readerEmail(m)) # NoUser
          => TodayBRT \notin readDays(userByEmail(readerEmail(m)).id)

\* one request at a time and the clock moving between requests, more readers
\* than the list of top readers holds, from a Monday on
TopInit ==
    /\ clock = 2 * (WeekStart + 1) + 1
    /\ users = {}
    /\ reading_stats = <<>>
    /\ calls = [p \in Procs |-> Idle]
    /\ observed = [e \in {readerEmail(n) : n \in 1..TopUsers} |-> NoStats]
    /\ reply = NoReply

\* the clock moves between requests, once all the readers but possibly the
\* last have registered
TopTick ==
    /\ Active = {}
    /\ Cardinality(users) >= TopUsers - 1
    /\ Tick(TopDays)

TopNext ==
    \/ TopTick
    \/ /\ clock % 2 = 1
       /\ \E n \in 1..TopUsers :
             inTurn(n) /\ Begin(1, {readerEmail(n)}, {TodayBRT}, TopReads)
    \/ Step(1)

TopSpec == TopInit /\ [][TopNext]_vars

\* the query strings and headers of the GET requests
UserIdParams == {NULL, <<1>>}
EmailParams == {NULL, <<Alice>>, <<Bob>>}
PostIdParams == {NULL, <<WeekStart + 6>>}
Auths == {"none", "invalid", "user", "admin"}
DateParams == {NULL, <<WeekStart + 6>>, <<WeekStart + 8>>}

\* one GET request, answered between two steps of the recordRead calls
Get ==
    \/ \E userId \in UserIdParams : \E email \in EmailParams : StatsRoute(userId, email)
    \/ \E postId \in PostIdParams : PostStatsRoute(postId)
    \/ \E auth \in Auths : \E startDate \in DateParams : \E endDate \in DateParams :
          AdminStatsRoute(auth, startDate, endDate)
    \/ \E auth \in Auths : \E startDate \in DateParams : \E endDate \in DateParams :
          TopReadersRoute(auth, startDate, endDate)
    \/ \E auth \in Auths : \E startDate \in DateParams : \E endDate \in DateParams :
          HistoricalRoute(auth, startDate, endDate)

\* one reader opening the issue of the day and GET requests at any moment,
\* from a Saturday on
ApiInit ==
    /\ clock = 2 * (WeekStart + 6) + 1
    /\ InitTables

ApiNext ==
    \/ Tick(ApiDays)
    \/ Begin(1, {Alice}, {TodayBRT}, ApiReads)
    \/ Step(1)
    \/ Get

ApiSpec == ApiInit /\ [][ApiNext]_vars

\* the earlier services, a request at a time from a Monday on: one reader
\* served by recordRead of db.service.ts, another by recordRead of part_004,
\* each opening the issue of the day
IncInit ==
    /\ clock = 2 * (WeekStart + 1) + 1
    /\ InitTables

IncNext ==
    \/ Tick(IncDays)
    \/ Len(reading_stats) < IncReads /\ recordRead_dbService(Alice, date(clock))
    \/ Len(reading_stats) < IncReads /\ recordRead_part004(Bob, date(clock))

IncSpec == IncInit /\ [][IncNext]_vars

\* concurrent requests of one reader for the issues of today and yesterday,
\* from a Monday evening in UTC-3 to the Wednesday
NightInit ==
    /\ clock = 2 * (WeekStart + 2)
    /\ InitTables

NightNext ==
    \/ Tick(NightDays)
    \/ \E p \in Procs : Begin(p, {Alice}, Posts, NightReads)
    \/ \E p \in Procs : Step(p)

NightSpec == NightInit /\ [][NightNext]_vars

TypeOK ==
    /\ clock \in Nat
    /\ \A u \in users : u.highest_streak \in Nat /\ u.current_streak \in Nat
    /\ \A p \in Procs : calls[p].pc \in {"idle", "threw", "getOrCreateUser", "insertUser",
           "hasReadPost", "insertRead", "selectDates", "updateStreak", "done"}

-----------------------------------------------------------------------------
(* Vocabulary of the properties *)

\* a ReadEvent of the user with this email for this post is stored
Stored(email, post_id) ==
    \E u \in users : \E i \in 1..Len(reading_stats) :
        /\ u.email = email
        /\ reading_stats[i].user_id = u.id
        /\ reading_stats[i].post_id = post_id

\* the current day in UTC-3 is a Sunday
SundayInBrazil == ((clock - 1) \div 2) % 7 = 0

\* the call of p has passed the validations, has not yet decided whether the
\* post was read, and its (user, post) pair is already stored
Repeating(p) ==
    /\ calls[p].pc \in {"getOrCreateUser", "insertUser", "hasReadPost"}
    /\ Stored(calls[p].email, calls[p].post_id)

\* the days on which the user with this email has a ReadEvent
DaysRead(email) ==
    {reading_stats[i].read_date \div 2 :
        i \in {j \in 1..Len(reading_stats) :
                 \E u \in users : u.email = email /\ reading_stats[j].user_id = u.id}}

\* no call is in flight, today is the Monday m + 7, and the reads of the user
\* are those of Monday m to Friday m + 4 and of Monday m + 7
WeekThenMonday(email) ==
    /\ Active = {}
    /\ \E m \in DaysRead(email) :
        /\ m % 7 = 1
        /\ DaysRead(email) = {m, m + 1, m + 2, m + 3, m + 4, m + 7}
        /\ (clock - 1) \div 2 = m + 7

\* no call is in flight, today is the Wednesday m + 2, and the reads of the
\* user are those of Monday m and of Wednesday m + 2
MondayThenWednesday(email) ==
    /\ Active = {}
    /\ \E m \in DaysRead(email) :
        /\ m % 7 = 1
        /\ DaysRead(email) = {m, m + 2}
        /\ (clock - 1) \div 2 = m + 2

-----------------------------------------------------------------------------
(* Properties *)

\* C1 (as stated): a recordRead whose (user, post) pair is already stored
\* completes without error and no step of it changes the users or the read
\* events.
C1_RepeatNeverFails ==
    [][\A p \in Procs :
        /\ (calls[p].pc = "idle" /\ calls'[p].pc # "idle"
              /\ Stored(calls'[p].email, calls'[p].post_id))
           => (calls'[p].pc # "threw" /\ UNCHANGED <<users, reading_stats>>)
        /\ Repeating(p)
           => (/\ UNCHANGED <<users, reading_stats>>
               /\ calls'[p].pc \in {calls[p].pc, "hasReadPost", "done"})]_vars

\* C1 (amended): a recordRead whose (user, post) pair is already stored changes
\* neither the users nor the read events; it completes without error unless
\* the day is a Sunday in UTC-3, when it fails with a ValidationError.
C1_RepeatIsAbsorbed ==
    [][\A p \in Procs :
        /\ (calls[p].pc = "idle" /\ calls'[p].pc # "idle"
              /\ Stored(calls'[p].email, calls'[p].post_id))
           => (/\ UNCHANGED <<users, reading_stats>>
               /\ calls'[p].pc = "threw"
                  => (SundayInBrazil /\ calls'[p].error = "ValidationError"))
        /\ Repeating(p)
           => (/\ UNCHANGED <<users, reading_stats>>
               /\ calls'[p].pc \in {calls[p].pc, "hasReadPost", "done"})]_vars

\* C1 witness: a repeated call has returned without reading the dates
C1_Witness ==
    \E p \in Procs :
        /\ calls[p].pc = "done"
        /\ calls[p].dates = <<>>
        /\ Stored(calls[p].email, calls[p].post_id)

\* C2: with one recordRead at a time the store never holds two ReadEvents
\* with the same user and the same post.
C2_OneReadPerPair ==
    \A i \in 1..Len(reading_stats) : \A j \in 1..Len(reading_stats) :
        (i < j) => ~(/\ reading_stats[i].user_id = reading_stats[j].user_id
                     /\ reading_stats[i].post_id = reading_stats[j].post_id)

\* C2 witness: a post stored on an earlier day was requested again and the
\* call returned without inserting
C2_Witness ==
    \E p \in Procs : \E i \in 1..Len(reading_stats) : \E u \in users :
        /\ calls[p].pc = "done"
        /\ calls[p].dates = <<>>
        /\ u.email = calls[p].email
        /\ reading_stats[i].user_id = u.id
        /\ reading_stats[i].post_id = calls[p].post_id
        /\ reading_stats[i].read_date \div 2 < (clock - 1) \div 2

\* C3 (as stated): under any interleaving of concurrent recordRead calls no
\* (user, post) pair has two ReadEvents.
C3_OneReadPerPairConcurrent ==
    \A i \in 1..Len(reading_stats) :
        Cardinality({j \in 1..Len(reading_stats) :
            /\ reading_stats[j].user_id = reading_stats[i].user_id
            /\ reading_stats[j].post_id = reading_stats[i].post_id}) <= 1

\* C4: a recordRead begun on a Sunday in UTC-3 fails with a ValidationError
\* and changes nothing, neither when it fails nor afterwards.
C4_SundayRefused ==
    [][\A p \in Procs :
        /\ (calls[p].pc = "idle" /\ calls'[p].pc # "idle" /\ SundayInBrazil)
           => (/\ calls'[p].pc = "threw"
               /\ calls'[p].error = "ValidationError"
               /\ UNCHANGED <<users, reading_stats>>)
        /\ (calls[p].pc = "threw" /\ calls'[p] # calls[p])
           => (calls'[p].pc = "idle" /\ UNCHANGED <<users, reading_stats>>)]_vars

\* C4 witness: a call was refused because of the Sunday
C4_Witness ==
    \E p \in Procs :
        /\ calls[p].pc = "threw"
        /\ calls[p].message = "Reading is not allowed on Sundays"
        /\ isValidEmail(calls[p].email)

\* C5 (as stated): no stored ReadEvent has a read_date that is a Sunday in
\* UTC-3.
C5_NoSundayRead ==
    \A i \in 1..Len(reading_stats) : (reading_stats[i].read_date \div 2) % 7 # 0

\* C6: every stored user has highest_streak >= current_streak.
C6_HighestAtLeastCurrent ==
    \A u \in users : u.highest_streak >= u.current_streak

\* C6 witness: a streak update has raised a user's streak above the value
\* the record was created with
C6_Witness ==
    \E u \in users : u.last_read_date # <<>> /\ u.current_streak >= 2

\* C7 (as stated): the highest_streak that getUserStats returns to a reader
\* after each recordRead never decreases.
C7_ReportedHighestMonotone ==
    [][\A e \in ValidEmails :
        observed'[e].highest_streak >= observed[e].highest_streak]_vars

\* C8 (as stated): after reads on Monday to Friday and on the next Monday the
\* persisted and the reported current_streak are 6 on that Monday.
C8_WeekendTransparent ==
    \A e \in ValidEmails :
        WeekThenMonday(e)
        => (/\ \A u \in users : u.email = e => u.current_streak = 6
            /\ getUserStats(e).current_streak = 6)

\* C9 (as stated): when the two latest read days of a user are a Saturday and
\* the Monday after it, the streak persisted for the Monday read is the streak
\* persisted before it plus one.
C9_SundayDoesNotBreak ==
    [][\A p \in Procs :
        (/\ calls[p].pc = "updateStreak"
         /\ calls'[p].pc = "done"
         /\ Len(calls[p].dates) >= 2
         /\ calls[p].dates[1] % 7 = 1
         /\ calls[p].dates[2] = calls[p].dates[1] - 2)
        => \A u \in users : \A v \in users' :
              (u.id = calls[p].user_id /\ v.id = u.id)
              => v.current_streak = u.current_streak + 1]_vars

\* C10: after reads on a Monday and on the Wednesday after it, and no other,
\* the persisted and the reported current_streak are 1 on that Wednesday.
C10_GapBreaksStreak ==
    \A e \in ValidEmails :
        MondayThenWednesday(e)
        => (/\ \A u \in users : u.email = e => u.current_streak = 1
            /\ getUserStats(e).current_streak = 1)

\* C10 witness: the Monday and Wednesday reads are stored and the Wednesday
\* call has returned
C10_Witness == MondayThenWednesday(Alice) /\ Len(reading_stats) = 2

-----------------------------------------------------------------------------
(* The streak a reader is shown *)

\* the current day in UTC-3
BrazilDay == (clock - 1) \div 2

RECURSIVE BackwardWalk(_, _, _, _)
\* the walk of the streak calculator, from today back over the lookback
\* window: a Sunday is stepped over, a day with a read adds one, today
\* without a read is stepped over, any other day without a read ends the walk
BackwardWalk(reads, today, cursor, count) ==
    IF cursor < today - (LookbackDays + 1) THEN count
    ELSE IF cursor % 7 = 0 THEN BackwardWalk(reads, today, cursor - 1, count)
    ELSE IF cursor \in reads THEN BackwardWalk(reads, today, cursor - 1, count + 1)
    ELSE IF cursor = today THEN BackwardWalk(reads, today, cursor - 1, count)
    ELSE count

\* the user with this email has a read, and a day that is not a Sunday lies
\* strictly between the last read and today
MissedADay(email) ==
    LET reads == DaysRead(email) IN
    /\ reads # {}
    /\ \E d \in WeekStart..(BrazilDay - 1) :
        /\ d % 7 # 0
        /\ \A r \in reads : r < d

\* C11 (as stated): the current_streak that getUserStats reports is the count
\* of the backward walk from today over the read days of the user; Sundays
\* add nothing to it.
C11_ReportedIsBackwardWalk ==
    \A e \in ValidEmails :
        getUserStats(e).current_streak
            = BackwardWalk(DaysRead(e), BrazilDay, BrazilDay, 0)

C13_FirstReadIsOne ==
    \A e \in ValidEmails :
        /\ DaysRead(e) = {} => getUserStats(e).current_streak = 0
        /\ (Active = {} /\ DaysRead(e) = {BrazilDay})
           => (/\ \A u \in users : u.email = e
                    => (u.current_streak = 1 /\ u.highest_streak = 1)
               /\ getUserStats(e).current_streak = 1
               /\ getUserStats(e).highest_streak = 1)

\* C20 (as stated): when a recordRead has succeeded, the current_streak
\* persisted in the user record is the current_streak getUserStats reports.
C20_PersistedIsReported ==
    \A p \in Procs : \A u \in users :
        (calls[p].pc = "done" /\ u.email = calls[p].email)
        => u.current_streak = getUserStats(u.email).current_streak

\* the user with this email has a read on every day that is not a Sunday,
\* from the first read to today
ReadsEveryDay(email) ==
    /\ DaysRead(email) # {}
    /\ \A d \in (WeekStart + 1)..BrazilDay :
        (d % 7 # 0 /\ \E r \in DaysRead(email) : r <= d) => d \in DaysRead(email)

\* C14 (as stated): for a reader with a read on every day that is not a
\* Sunday, however many days that is, the current_streak getUserStats reports
\* counts every one of the read days.
C14_StreakNotTruncated ==
    \A e \in ValidEmails :
        ReadsEveryDay(e) => getUserStats(e).current_streak >= Cardinality(DaysRead(e))

-----------------------------------------------------------------------------
(* Opening rates *)

\* the first and last day of the ranges an administrator asks for: the
\* Saturday and the Monday around the first Sunday
RangeDays == {WeekStart + 6, WeekStart + 8}

\* a rate between 0 and 100 percent, in hundredths of a percent
IsRate(x) == x \in 0..10000

\* the days from the first read of the user to today that are not Sundays
EligibleDays(email) ==
    {d \in 0..BrazilDay : d % 7 # 0 /\ \E r \in DaysRead(email) : r <= d}

\* C15: every opening rate lies between 0 and 100: the one getUserStats
\* computes for a user from the rows and the days of that user, those of the
\* rows getTopReaders returns, those of the users getAdminStats averages, and
\* their average.
C15_RatesWithinBounds ==
    /\ \A u \in users :
          IsRate(opening_rate(Cardinality(readsOf(u.id)), total_possible_newsletters(u)))
    /\ \A startDate \in RangeDays : \A endDate \in RangeDays :
        LET avg == getAdminStats(startDate, endDate).avg_opening_rate
            top == getTopReaders(startDate, endDate)
        IN
        /\ \A r \in user_rates(startDate, endDate) : IsRate(r.opening_rate)
        /\ avg # <<>> => IsRate(avg[1])
        /\ \A i \in DOMAIN top : IsRate(top[i].opening_rate)

\* C15 witness: a reader holds more rows of reading_stats than there are
\* days to count, and is listed among the top readers of a range
C15_Witness ==
    \E u \in users :
        /\ total_possible_newsletters(u) > 0
        /\ Cardinality(readsOf(u.id)) > total_possible_newsletters(u)
        /\ \E startDate \in RangeDays : \E endDate \in RangeDays :
              \E i \in DOMAIN getTopReaders(startDate, endDate) :
                 getTopReaders(startDate, endDate)[i].email = u.email

\* the user with this email has no read on a Sunday, and the user record was
\* created on the day of the first read, in UTC as in UTC-3
PlainHistory(email) ==
    /\ \A r \in DaysRead(email) : r % 7 # 0
    /\ \A u \in users : \A r \in DaysRead(email) :
          u.email = email => u.created_at \div 2 <= r

\* C16 (as stated): the opening rate getUserStats reports is 100 times the
\* number of eligible days with a read of the user over the number of
\* eligible days since the first read, so posts read on one day count once
\* (stated for readers without a read on a Sunday whose record dates from
\* the day of the first read).
C16_RateCountsDays ==
    \A e \in ValidEmails :
        (EligibleDays(e) # {} /\ PlainHistory(e))
        => getUserStats(e).opening_rate
             = (2 * 10000 * Cardinality(DaysRead(e) \cap EligibleDays(e))
                  + Cardinality(EligibleDays(e)))
               \div (2 * Cardinality(EligibleDays(e)))

\* C17 (as stated): a user for whom the number of eligible days is zero has
\* an opening rate of 100, in getUserStats and among the rates getAdminStats
\* averages.
C17_NoEligibleDayIsFull ==
    /\ \A u \in users :
          total_possible_newsletters(u) = 0
          => getUserStats(u.email).opening_rate = 10000
    /\ \A startDate \in RangeDays : \A endDate \in RangeDays :
          \A r \in user_rates(startDate, endDate) :
             r.total_possible_newsletters = 0 => r.opening_rate = 10000

-----------------------------------------------------------------------------
(* The administrator's summary *)

\* the registered users that are not the administrator
Registered == {u \in users : u.email # adminEmail}

\* the registered users with a read on a day of the range
ActiveIn(startDate, endDate) ==
    {u \in Registered :
        \E i \in 1..Len(reading_stats) :
            /\ reading_stats[i].user_id = u.id
            /\ reading_stats[i].read_date \div 2 >= startDate
            /\ reading_stats[i].read_date \div 2 <= endDate}

\* C19 (as stated): for every range, total_users of getAdminStats is the
\* number of registered users, with or without a read in the range, and
\* active_users is the number of users with a read in the range (NULL
\* standing for 0 when there is none), whenever no request is in flight.
C19_TotalCountsEveryUser ==
    \A startDate \in RangeDays : \A endDate \in RangeDays :
        Active = {} =>
        /\ getAdminStats(startDate, endDate).total_users = Cardinality(Registered)
        /\ \/ getAdminStats(startDate, endDate).active_users
                = <<Cardinality(ActiveIn(startDate, endDate))>>
           \/ /\ ActiveIn(startDate, endDate) = {}
              /\ getAdminStats(startDate, endDate).active_users = <<>>

-----------------------------------------------------------------------------
(* The list of top readers *)

\* the first and last day of the ranges asked for in the run that fills the
\* list of top readers
TopRangeDays == (WeekStart + 1)..(WeekStart + 3)

\* row a has a greater (opening_rate, streak) pair than row b
Outranks(a, b) ==
    \/ a.opening_rate > b.opening_rate
    \/ a.opening_rate = b.opening_rate /\ a.streak > b.streak

\* C18: for every range getTopReaders returns at most 10 rows, no row is
\* outranked by a row after it, and no user left out outranks a row returned.
C18_TopReadersOrdered ==
    \A startDate \in TopRangeDays : \A endDate \in TopRangeDays :
        LET top == getTopReaders(startDate, endDate) IN
        /\ Len(top) <= 10
        /\ \A i \in DOMAIN top : \A j \in DOMAIN top :
              i < j => ~Outranks(top[j], top[i])
        /\ \A r \in user_reads(startDate, endDate) :
              (\A i \in DOMAIN top : top[i].email # r.email)
              => \A i \in DOMAIN top : ~Outranks(r, top[i])

\* C18 witness: a range has more than 10 readers with a read, the list holds
\* 10 rows, and its first row outranks its last
C18_Witness ==
    \E startDate \in TopRangeDays : \E endDate \in TopRangeDays :
        LET top == getTopReaders(startDate, endDate) IN
        /\ Cardinality({r \in user_reads(startDate, endDate) : r.total_reads > 0}) > 10
        /\ Len(top) = 10
        /\ Outranks(top[1], top[10])

-----------------------------------------------------------------------------
(* One policy for the eligible days *)

\* C21 (as stated): for a user and the range from the day the record of the
\* user was created to today, the number of eligible days getUserStats
\* divides by is the number getAdminStats and getTopReaders divide by,
\* whenever no request is in flight and no read is dated a Sunday.
C21_OneEligibleDayPolicy ==
    (/\ Active = {}
     /\ \A i \in 1..Len(reading_stats) : (reading_stats[i].read_date \div 2) % 7 # 0)
    =>
    \A u \in users :
        LET nd == newsletter_days(date(u.created_at), TodayBRT) IN
        /\ range_total_possible(u, nd) = total_possible_newsletters(u)
        /\ \A r \in user_rates(date(u.created_at), TodayBRT) :
              r.id = u.id
              => r.total_possible_newsletters = total_possible_newsletters(u)

-----------------------------------------------------------------------------
(* Refused requests *)

\* the addresses of the model that are not email addresses: one without a
\* top-level domain of two letters, one without an @
Malformed == {NoTld, NoAt}

\* C22: a recordRead with a malformed email fails with a ValidationError
\* before anything is written: the step that refuses it and the step that
\* answers it leave the users and the read events unchanged, and no stored
\* user carries a malformed email.
C22_MalformedEmailRefused ==
    /\ [](\A u \in users : u.email \notin Malformed)
    /\ [][\A p \in Procs :
            /\ (calls[p].pc = "idle" /\ calls'[p].pc # "idle"
                  /\ calls'[p].email \in Malformed)
               => (/\ calls'[p].pc = "threw"
                   /\ calls'[p].error = "ValidationError"
                   /\ UNCHANGED <<users, reading_stats>>)
            /\ (calls[p].email \in Malformed /\ calls'[p] # calls[p])
               => (/\ calls[p].pc = "threw"
                   /\ calls'[p].pc = "idle"
                   /\ UNCHANGED <<users, reading_stats>>)]_vars

\* C22 witness: a call with a malformed email was refused while the store
\* already held a user and a read
C22_Witness ==
    \E p \in Procs :
        /\ calls[p].pc = "threw"
        /\ calls[p].email \in Malformed
        /\ calls[p].message = "Invalid email address"
        /\ users # {}
        /\ reading_stats # <<>>

\* C23 (as stated): an admin, top-readers or historical request of an
\* administrator that lacks startDate or endDate is answered with a
\* ValidationError, status 400, and without statistics.
C23_MissingRangeRefused ==
    [][\A startDate \in DateParams : \A endDate \in DateParams :
        (/\ startDate = NULL \/ endDate = NULL
         /\ \/ AdminStatsRoute("admin", startDate, endDate)
            \/ TopReadersRoute("admin", startDate, endDate)
            \/ HistoricalRoute("admin", startDate, endDate))
        => (/\ reply'.error = "ValidationError"
            /\ reply'.status = 400
            /\ reply'.body = <<>>)]_vars

-----------------------------------------------------------------------------
(* What the statistics leave alone *)

\* C24: a step that answers a statistics request (the GET routes, and the
\* statistics fetched after a recordRead) leaves every user record and every
\* ReadEvent unchanged, and no step at all removes or changes a ReadEvent
\* that is stored.
C24_StatisticsReadOnly ==
    [][/\ (reply' # reply \/ observed' # observed
             \/ (calls' = calls /\ clock' = clock))
          => UNCHANGED <<users, reading_stats>>
       /\ \A i \in 1..Len(reading_stats) :
             /\ i <= Len(reading_stats')
             /\ reading_stats'[i] = reading_stats[i]]_vars

\* C24 witness: GET /api/stats was answered with the statistics and the
\* history of a user who has a read
C24_Witness ==
    /\ reply.route = "/api/stats"
    /\ reply.status = 200
    /\ reply.body.stats.total_reads >= 1
    /\ Len(reply.body.history) >= 1
    /\ Len(reading_stats) >= 1

-----------------------------------------------------------------------------
(* The persisted streak *)

\* C25 (as stated): no stored user has current_streak > 0 and no ReadEvent.
C25_NoStreakBeforeFirstRead ==
    \A u \in users : u.current_streak > 0 => readsOf(u.id) # {}

-----------------------------------------------------------------------------
(* The statistics of one user *)

\* C26 (as stated): GET /api/stats is answered with status 200 when the
\* request carries a userId and no email, and when it carries an email and
\* no userId.
C26_UserIdSuffices ==
    [][\A userId \in UserIdParams : \A email \in EmailParams :
        (/\ (userId = NULL) # (email = NULL)
         /\ StatsRoute(userId, email))
        => reply'.status = 200]_vars

-----------------------------------------------------------------------------
(* The incremental streak *)

\* the streak of a full replay of the read days, as of the latest of them
Replay(reads) ==
    LET last == CHOOSE d \in reads : \A e \in reads : e <= d IN
    BackwardWalk(reads, last, last, 0)

\* C27 (as stated): after every recordRead of a service that updates the
\* streak incrementally, the persisted current_streak of the user is the
\* streak of a full replay of the read days of the user.
C27_IncrementalIsReplay ==
    \A u \in users :
        readDays(u.id) # {} => u.current_streak = Replay(readDays(u.id))

-----------------------------------------------------------------------------
(* Concurrent reads of one user *)

\* no two rows of reading_stats are of the same user and post
DifferentPosts ==
    \A i \in 1..Len(reading_stats) : \A j \in 1..Len(reading_stats) :
        (/\ reading_stats[i].user_id = reading_stats[j].user_id
         /\ reading_stats[i].post_id = reading_stats[j].post_id) => i = j

\* C28 (as stated): once every recordRead call has completed, the calls
\* having been for different posts, the persisted current_streak of a user
\* with a read is the streak recordRead computes from the read days the user
\* has then.
C28_NoLostUpdate ==
    (Active = {} /\ DifferentPosts) =>
    \A u \in users :
        readDays(u.id) # {}
        => u.current_streak = computeStreak(sortDesc(readDays(u.id)))

-----------------------------------------------------------------------------
(* Readers do not touch each other *)

\* C29: a step of a recordRead call for one email, whether the call then
\* succeeds, finds a duplicate or fails, leaves the record of every user with
\* another email as it is, creates no user with another email, adds no
\* ReadEvent of such a user and changes no ReadEvent that is stored, also
\* while calls for other users are in flight.
C29_UsersIndependent ==
    [][\A p \in Procs :
        calls'[p] # calls[p] =>
        LET email == IF calls[p].pc = "idle" THEN calls'[p].email ELSE calls[p].email IN
        /\ \A u \in users : u.email # email => u \in users'
        /\ \A u \in users' : u.email # email => u \in users
        /\ \A i \in 1..Len(reading_stats') :
              (\E u \in users' : u.id = reading_stats'[i].user_id /\ u.email # email)
              => (i <= Len(reading_stats) /\ reading_stats[i] = reading_stats'[i])
        /\ \A i \in 1..Len(reading_stats) :
              i <= Len(reading_stats') /\ reading_stats'[i] = reading_stats[i]]_vars

\* C29 witness: two calls for different users are in flight, one about to
\* persist a streak, while the other user has a stored read
C29_Witness ==
    \E p \in Procs : \E q \in Procs : \E u \in users :
        /\ calls[p].pc = "updateStreak"
        /\ calls[q].pc \notin {"idle", "threw"}
        /\ calls[q].email # calls[p].email
        /\ u.email = calls[q].email
        /\ readsOf(u.id) # {}

-----------------------------------------------------------------------------
(* The persisted streak never falls to 0 *)

\* C30: every stored user has a persisted current_streak of 1 or more; the
\* persisted current_streak of a user changes only in the UPDATE that ends a
\* recordRead of that user which inserted a read, and never when the clock
\* moves.
C30_PersistedAtLeastOne ==
    /\ [](\A u \in users : u.current_streak >= 1)
    /\ [][/\ \A u \in users : \A v \in users' :
               (v.id = u.id /\ v.current_streak # u.current_streak)
               => \E p \in Procs :
                     /\ calls[p].pc = "updateStreak"
                     /\ calls'[p].pc = "done"
                     /\ calls[p].user_id = u.id
                     /\ \E i \in 1..Len(reading_stats) :
                           /\ reading_stats[i].user_id = u.id
                           /\ reading_stats[i].post_id = calls[p].post_id
          /\ clock' # clock => users' = users]_vars

\* C30 witness: days have passed without a read, getUserStats reports a
\* current_streak of 0 and the persisted one is still 1 or more
C30_Witness ==
    \E u \in users :
        /\ readsOf(u.id) # {}
        /\ u.current_streak >= 1
        /\ getUserStats(u.email).current_streak = 0

====
